---- MODULE Spec2Model ----
(***************************************************************************)
(* Model of the markdown-to-PDF renderer of src/pdf_utils.py.              *)
(*                                                                         *)
(* A text is a sequence of characters.  A character is a one-character     *)
(* string; the six non-ASCII code points that _clean_text replaces are     *)
(* written by name ("ndash", "mdash", "bullet", "middot", "nbsp",          *)
(* "nbhyphen").  The markup that the renderer itself produces is written   *)
(* as one element per tag: "<b>", "</b>", "<br/>".  No input alphabet      *)
(* holds '<' or '>', so an element that is a tag always is produced markup.*)
(***************************************************************************)
EXTENDS Integers, Sequences, FiniteSets, TLC

VARIABLES markdown_text, title, paragraph_space_before, paragraph_space_after,
          styles, text, blocks, idx, block, tag, data, story, pc, result,
          messages, last_answer, user_input, shown, agent_calls, pdf_calls, turns

vars == <<markdown_text, title, paragraph_space_before, paragraph_space_after,
          styles, text, blocks, idx, block, tag, data, story, pc, result,
          messages, last_answer, user_input, shown, agent_calls, pdf_calls, turns>>

\* the chat page: st.session_state, the input of the current run, what the
\* run has shown, and the calls made so far
app == <<messages, last_answer, user_input, shown, agent_calls, pdf_calls, turns>>

\* the arguments of the call
args == <<markdown_text, title, paragraph_space_before, paragraph_space_after>>

None == "None"

----------------------------------------------------------------------------
(* Python string primitives used by pdf_utils.py                           *)

MinOf(S) == CHOOSE i \in S : \A j \in S : i <= j
MaxOf(S) == CHOOSE i \in S : \A j \in S : j <= i

\* str.isspace() for the characters of the model: space, newline, U+00A0
IsSpace(c) == c \in {" ", "\n", "nbsp"}

\* str.strip()
Strip(s) ==
  LET ns == {i \in 1..Len(s) : ~IsSpace(s[i])}
  IN  IF ns = {} THEN <<>> ELSE SubSeq(s, MinOf(ns), MaxOf(ns))

\* str.rstrip()
RStrip(s) ==
  LET ns == {i \in 1..Len(s) : ~IsSpace(s[i])}
  IN  IF ns = {} THEN <<>> ELSE SubSeq(s, 1, MaxOf(ns))

\* str.strip(ch): every leading and every trailing ch is removed
StripChar(s, ch) ==
  LET ns == {i \in 1..Len(s) : s[i] # ch}
  IN  IF ns = {} THEN <<>> ELSE SubSeq(s, MinOf(ns), MaxOf(ns))

\* str.startswith(p)
StartsWith(s, p) == Len(s) >= Len(p) /\ SubSeq(s, 1, Len(p)) = p

\* str.split(sep), sep a non-empty text: left to right, non-overlapping
RECURSIVE Split(_, _)
Split(s, sep) ==
  LET n    == Len(sep)
      hits == {i \in 1..(Len(s) - n + 1) : SubSeq(s, i, i + n - 1) = sep}
  IN  IF hits = {} THEN <<s>>
      ELSE LET i == MinOf(hits)
           IN  <<SubSeq(s, 1, i - 1)>> \o Split(SubSeq(s, i + n, Len(s)), sep)

\* str.splitlines(): no line for the empty text, none after a final newline
SplitLines(s) ==
  LET parts == Split(s, <<"\n">>)
  IN  IF s = <<>> THEN <<>>
      ELSE IF parts[Len(parts)] = <<>> THEN SubSeq(parts, 1, Len(parts) - 1)
      ELSE parts

\* str.lower(): the ASCII letters; no other character of the model has case
UpperCase ==
  <<"A","B","C","D","E","F","G","H","I","J","K","L","M">> \o
  <<"N","O","P","Q","R","S","T","U","V","W","X","Y","Z">>

LowerCase ==
  <<"a","b","c","d","e","f","g","h","i","j","k","l","m">> \o
  <<"n","o","p","q","r","s","t","u","v","w","x","y","z">>

LowerChar(c) ==
  IF \E i \in 1..Len(UpperCase) : UpperCase[i] = c
  THEN LowerCase[CHOOSE i \in 1..Len(UpperCase) : UpperCase[i] = c]
  ELSE c

Lower(s) == [i \in 1..Len(s) |-> LowerChar(s[i])]

\* sep.join(parts)
RECURSIVE Join(_, _)
Join(parts, sep) ==
  IF parts = <<>> THEN <<>>
  ELSE IF Len(parts) = 1 THEN parts[1]
  ELSE parts[1] \o sep \o Join(Tail(parts), sep)

\* "".join(parts)
RECURSIVE Concat(_)
Concat(parts) == IF parts = <<>> THEN <<>> ELSE Head(parts) \o Concat(Tail(parts))

\* [f(x) for x in s if keep(x)] helpers
RECURSIVE SelectSeqNonEmpty(_)
SelectSeqNonEmpty(s) ==
  IF s = <<>> THEN <<>>
  ELSE IF Head(s) # <<>> THEN <<Head(s)>> \o SelectSeqNonEmpty(Tail(s))
  ELSE SelectSeqNonEmpty(Tail(s))

----------------------------------------------------------------------------
(* _clean_text                                                             *)

\* a replacements dict one of whose targets is a source replaced earlier
replacementsChained ==
  << <<"ndash", "-">>, <<"mdash", "ndash">>, <<"bullet", "-">>,
     <<"middot", "-">>, <<"nbsp", " ">>, <<"nbhyphen", "-">> >>

\* the replacements dict, in insertion order
replacements ==
  << <<"ndash", "-">>, <<"mdash", "-">>, <<"bullet", "-">>,
     <<"middot", "-">>, <<"nbsp", " ">>, <<"nbhyphen", "-">> >>

\* text.replace(src, tgt) for one-character src and tgt
Replace(s, src, tgt) == [i \in 1..Len(s) |-> IF s[i] = src THEN tgt ELSE s[i]]

RECURSIVE ApplyReplacements(_, _)
ApplyReplacements(s, reps) ==
  IF reps = <<>> THEN s
  ELSE ApplyReplacements(Replace(s, Head(reps)[1], Head(reps)[2]), Tail(reps))

_clean_text(s) == ApplyReplacements(s, replacements)

----------------------------------------------------------------------------
(* _convert_markdown_bold_to_html: re.sub(r"\*\*(.+?)\*\*", r"<b>\1</b>")   *)

\* BoldMatchEnd with a greedy ".+": the last closing "**" on the line
BoldMatchEndGreedy(t) ==
  IF Len(t) >= 5 /\ t[1] = "*" /\ t[2] = "*"
  THEN LET cands == {j \in 4..(Len(t) - 1) :
                       /\ t[j] = "*" /\ t[j + 1] = "*"
                       /\ \A k \in 3..(j - 1) : t[k] # "\n"}
       IN  IF cands = {} THEN 0 ELSE MaxOf(cands)
  ELSE 0

\* Position of the closing "**" of a match that starts at the head of t, or
\* 0 when the pattern does not match there.  ".+?" takes one or more
\* characters other than newline and as few as possible.
BoldMatchEnd(t) ==
  IF Len(t) >= 5 /\ t[1] = "*" /\ t[2] = "*"
  THEN LET cands == {j \in 4..(Len(t) - 1) :
                       /\ t[j] = "*" /\ t[j + 1] = "*"
                       /\ \A k \in 3..(j - 1) : t[k] # "\n"}
       IN  IF cands = {} THEN 0 ELSE MinOf(cands)
  ELSE 0

RECURSIVE _convert_markdown_bold_to_html(_)
_convert_markdown_bold_to_html(t) ==
  IF t = <<>> THEN <<>>
  ELSE LET close == BoldMatchEnd(t)
       IN  IF close # 0
           THEN <<"<b>">> \o SubSeq(t, 3, close - 1) \o <<"</b>">>
                \o _convert_markdown_bold_to_html(SubSeq(t, close + 2, Len(t)))
           ELSE <<Head(t)>> \o _convert_markdown_bold_to_html(Tail(t))

----------------------------------------------------------------------------
(* _is_markdown_table and _parse_markdown_table                            *)

SepChars == {"-", ":"}

\* set(inner) <= set("-:")
OnlySepChars(s) == \A i \in 1..Len(s) : s[i] \in SepChars

StripEach(ls) == [i \in 1..Len(ls) |-> Strip(ls[i])]

RECURSIVE SelectPipeLines(_)
SelectPipeLines(ls) ==
  IF ls = <<>> THEN <<>>
  ELSE IF StartsWith(Head(ls), <<"|">>)
       THEN <<Head(ls)>> \o SelectPipeLines(Tail(ls))
       ELSE SelectPipeLines(Tail(ls))

_is_markdown_table(b) ==
  LET lines      == SelectSeqNonEmpty(StripEach(SplitLines(b)))
      pipe_lines == SelectPipeLines(lines)
  IN  /\ Len(lines) >= 2
      /\ Len(pipe_lines) >= 2
      /\ \E n \in 1..Len(pipe_lines) :
            LET inner == Strip(StripChar(pipe_lines[n], "|"))
            IN  inner # <<>> /\ ~OnlySepChars(inner)

\* cells of one stripped pipe line
LineCells(line) == StripEach(Split(StripChar(line, "|"), <<"|">>))

\* the separator test without its guard on the empty concatenation
IsSeparatorRowUnguarded(cells) == OnlySepChars(Concat(cells))

\* the separator test of _parse_markdown_table
IsSeparatorRow(cells) ==
  LET inner == Concat(cells)
  IN  inner # <<>> /\ OnlySepChars(inner)

RECURSIVE ParseLines(_)
ParseLines(ls) ==
  IF ls = <<>> THEN <<>>
  ELSE LET line == Strip(Head(ls))
       IN  IF ~StartsWith(line, <<"|">>) THEN ParseLines(Tail(ls))
           ELSE IF IsSeparatorRow(LineCells(line)) THEN ParseLines(Tail(ls))
           ELSE <<LineCells(line)>> \o ParseLines(Tail(ls))

_parse_markdown_table(b) == ParseLines(SplitLines(b))

----------------------------------------------------------------------------
(* Layout-engine elements built by build_pdf_bytes                         *)

\* Paragraph(text, style): the element, once its markup has parsed
Paragraph(txt, style) ==
  [kind |-> "Paragraph", style |-> style, text |-> txt, data |-> <<>>]

\* Depth of open <b> tags after reading txt from depth d; -1 once a closing
\* tag has no opening tag to close.
RECURSIVE TagDepth(_, _)
TagDepth(txt, d) ==
  IF d < 0 \/ txt = <<>> THEN d
  ELSE IF Head(txt) = "<b>" THEN TagDepth(Tail(txt), d + 1)
  ELSE IF Head(txt) = "</b>" THEN TagDepth(Tail(txt), d - 1)
  ELSE TagDepth(Tail(txt), d)

\* Paragraph's constructor parses its text as markup and raises ValueError
\* on a closing tag without an opening one or on a tag left open.
ParagraphParses(txt) == TagDepth(txt, 0) = 0

\* Table(table_data, hAlign="LEFT") with the TableStyle set on it
TableElement(table_data) ==
  [kind |-> "Table", style |-> "TableStyle", text |-> <<>>, data |-> table_data]

\* Spacer(1, body_font_size * paragraph_space_after)
Spacer == [kind |-> "Spacer", style |-> "", text |-> <<>>, data |-> <<>>]

\* row_idx == 0 takes header_style, every other row cell_style
CellStyle(row_idx) == IF row_idx = 0 THEN "TableHeader" ELSE "TableCell"

\* table_data: every cell of data wrapped in a Paragraph
TableData(rows) ==
  [r \in 1..Len(rows) |->
     [c \in 1..Len(rows[r]) |-> Paragraph(rows[r][c], CellStyle(r - 1))]]

\* every Paragraph of table_data can be constructed
TableCellsParse(rows) ==
  \A r \in 1..Len(rows) : \A c \in 1..Len(rows[r]) : ParagraphParses(rows[r][c])

\* block[n:]
DropFirst(s, n) == SubSeq(s, n + 1, Len(s))

\* the three callout keywords
CalloutKeywords ==
  { <<"s","u","m","m","a","r","y">>,
    <<"r","i","n","g","k","a","s","a","n">>,
    <<"r","e","c","o","m","m","e","n","d","a","t","i","o","n">> }

IsCallout(b) == \E kw \in CalloutKeywords : StartsWith(Lower(b), kw)

\* BodyLine with the markers looked for at the start of the untrimmed line
BodyLineUntrimmed(line) ==
  IF StartsWith(line, <<"-", " ">>)
     THEN <<"bullet", " ">> \o Strip(DropFirst(line, 2))
  ELSE IF StartsWith(line, <<"*", " ">>)
     THEN <<"bullet", " ">> \o Strip(DropFirst(line, 2))
  ELSE RStrip(line)

\* one line of a normal paragraph
BodyLine(line) ==
  LET stripped == Strip(line)
  IN  IF StartsWith(stripped, <<"-", " ">>)
         THEN <<"bullet", " ">> \o Strip(DropFirst(stripped, 2))
      ELSE IF StartsWith(stripped, <<"*", " ">>)
         THEN <<"bullet", " ">> \o Strip(DropFirst(stripped, 2))
      ELSE RStrip(line)

BodyLines(b) == LET ls == SplitLines(b) IN [i \in 1..Len(ls) |-> BodyLine(ls[i])]

CalloutLines(b) == LET ls == SplitLines(b) IN [i \in 1..Len(ls) |-> RStrip(ls[i])]

\* Branch with the heading prefixes tested before the table rule
BranchHeadingFirst(b) ==
  IF StartsWith(b, <<"#","#","#","#"," ">>) THEN "Heading4"
  ELSE IF StartsWith(b, <<"#","#","#"," ">>) THEN "Heading3"
  ELSE IF StartsWith(b, <<"#","#"," ">>) THEN "Heading2"
  ELSE IF StartsWith(b, <<"#"," ">>) THEN "Heading1"
  ELSE IF _is_markdown_table(b) THEN "Table"
  ELSE IF IsCallout(b) THEN "Callout"
  ELSE "Body"

\* Branch with the heading prefixes tested shortest first and without their
\* closing space
BranchShortestFirst(b) ==
  IF _is_markdown_table(b) THEN "Table"
  ELSE IF StartsWith(b, <<"#">>) THEN "Heading1"
  ELSE IF StartsWith(b, <<"#","#">>) THEN "Heading2"
  ELSE IF StartsWith(b, <<"#","#","#">>) THEN "Heading3"
  ELSE IF StartsWith(b, <<"#","#","#","#">>) THEN "Heading4"
  ELSE IF IsCallout(b) THEN "Callout"
  ELSE "Body"

\* the if-chain of the loop body, in the order of the code: the branch that
\* handles a stripped, non-empty block
Branch(b) ==
  IF _is_markdown_table(b) THEN "Table"
  ELSE IF StartsWith(b, <<"#","#","#","#"," ">>) THEN "Heading4"
  ELSE IF StartsWith(b, <<"#","#","#"," ">>) THEN "Heading3"
  ELSE IF StartsWith(b, <<"#","#"," ">>) THEN "Heading2"
  ELSE IF StartsWith(b, <<"#"," ">>) THEN "Heading1"
  ELSE IF IsCallout(b) THEN "Callout"
  ELSE "Body"

\* the bytes of buffer.getvalue() after doc.build(story): the PDF header,
\* then the document
PdfBytes(st) == <<"%", "P", "D", "F", "-">> \o <<Len(st)>>

----------------------------------------------------------------------------
(* The styles. paragraph_space_before and paragraph_space_after are numbers *)
(* of lines; the model counts them in quarters of a line, the unit of the   *)
(* offsets 0.25, 0.5 and 0.75, so that every space is a whole number of    *)
(* points.                                                                 *)

QuartersPerLine == 4

\* body_font_size = 12.0
body_font_size == 12

\* paragraph_space_before: float = 0.0
DefaultSpaceBefore == 0

\* paragraph_space_after: float = 0.75
DefaultSpaceAfter == 3

StyleNames ==
  {"Body", "Heading1Custom", "Heading2Custom", "Heading3Custom", "Heading4Custom",
   "Summary"}

\* every heading and the callout style offset by a quarter line at least
SpaceOffsetRaised(name) ==
  CASE name = "Body" -> [before |-> 0, after |-> 0]
    [] name = "Heading1Custom" -> [before |-> 2, after |-> 2]
    [] name = "Heading2Custom" -> [before |-> 1, after |-> 2]
    [] name = "Heading3Custom" -> [before |-> 1, after |-> 1]
    [] name = "Heading4Custom" -> [before |-> 1, after |-> 1]
    [] name = "Summary" -> [before |-> 1, after |-> 3]

\* what each style adds to paragraph_space_before and paragraph_space_after,
\* in quarters of a line: + 0.5, + 0.25, + 0.75 or nothing
SpaceOffset(name) ==
  CASE name = "Body" -> [before |-> 0, after |-> 0]
    [] name = "Heading1Custom" -> [before |-> 2, after |-> 2]
    [] name = "Heading2Custom" -> [before |-> 1, after |-> 2]
    [] name = "Heading3Custom" -> [before |-> 0, after |-> 0]
    [] name = "Heading4Custom" -> [before |-> 0, after |-> 0]
    [] name = "Summary" -> [before |-> 1, after |-> 3]

\* fontSize of each style; Summary has the size of its parent, Body
FontSize(name) ==
  CASE name = "Body" -> body_font_size
    [] name = "Heading1Custom" -> 20
    [] name = "Heading2Custom" -> 18
    [] name = "Heading3Custom" -> 16
    [] name = "Heading4Custom" -> 14
    [] name = "Summary" -> body_font_size

\* body_font_size * lines, in points, for a number of quarter lines
Points(quarters) == (body_font_size * quarters) \div QuartersPerLine

\* the six ParagraphStyle objects, by name
StyleRegistry(space_before, space_after) ==
  [name \in StyleNames |->
     [fontSize    |-> FontSize(name),
      spaceBefore |-> Points(space_before + SpaceOffset(name).before),
      spaceAfter  |-> Points(space_after + SpaceOffset(name).after)]]

----------------------------------------------------------------------------
(* build_pdf_bytes, one action per step                                    *)

\* text = _convert_markdown_bold_to_html(markdown_text or "")
Translate ==
  /\ pc = "start"
  /\ text' = _convert_markdown_bold_to_html(markdown_text)
  /\ pc' = "translated"
  /\ UNCHANGED <<app, args, styles, blocks, idx, block, tag, data, story, result>>

\* text = _clean_text(text)
Normalize ==
  /\ pc = "translated"
  /\ text' = _clean_text(text)
  /\ pc' = "cleaned"
  /\ UNCHANGED <<app, args, styles, blocks, idx, block, tag, data, story, result>>

\* a split on every newline, in place of the split on two newlines
SplitBlocksPerLine(t) == Split(t, <<"\n">>)

\* blocks = text.split("\n\n")
SplitBlocks(t) == Split(t, <<"\n", "\n">>)

\* the styles; story = []; the optional title; blocks = text.split("\n\n")
Segment ==
  /\ pc = "cleaned"
  /\ styles' = StyleRegistry(paragraph_space_before, paragraph_space_after)
  /\ IF title # None /\ title # <<>>
     THEN IF ParagraphParses(_clean_text(title))
          THEN /\ story' = <<Paragraph(_clean_text(title), "Heading1Custom")>>
               /\ blocks' = SplitBlocks(text)
               /\ pc' = "loop"
          ELSE /\ pc' = "raised"
               /\ UNCHANGED <<story, blocks>>
     ELSE /\ story' = <<>>
          /\ blocks' = SplitBlocks(text)
          /\ pc' = "loop"
  /\ idx' = 1
  /\ UNCHANGED <<app, args, text, block, tag, data, result>>

InLoop == pc = "loop" /\ idx <= Len(blocks)

\* if not block: continue
SkipEmpty ==
  /\ InLoop
  /\ Strip(blocks[idx]) = <<>>
  /\ block' = <<>>
  /\ tag' = "Empty"
  /\ idx' = idx + 1
  /\ UNCHANGED <<app, args, styles, text, blocks, data, story, pc, result>>

\* the table branch without its guard on an empty grid
RenderTableUnguarded ==
  /\ pc = "loop" /\ idx <= Len(blocks)
  /\ Strip(blocks[idx]) # <<>>
  /\ Branch(Strip(blocks[idx])) = "Table"
  /\ block' = Strip(blocks[idx])
  /\ tag' = "Table"
  /\ data' = _parse_markdown_table(Strip(blocks[idx]))
  /\ IF TableCellsParse(data')
     THEN /\ story' = story \o <<TableElement(TableData(data')), Spacer>>
          /\ idx' = idx + 1
          /\ UNCHANGED pc
     ELSE /\ pc' = "raised"
          /\ UNCHANGED <<story, idx>>
  /\ UNCHANGED <<app, args, styles, text, blocks, result>>

\* the table branch without the spacer after the table
RenderTableNoSpacer ==
  /\ pc = "loop" /\ idx <= Len(blocks)
  /\ Strip(blocks[idx]) # <<>>
  /\ Branch(Strip(blocks[idx])) = "Table"
  /\ block' = Strip(blocks[idx])
  /\ tag' = "Table"
  /\ data' = _parse_markdown_table(Strip(blocks[idx]))
  /\ IF data' = <<>>
     THEN /\ idx' = idx + 1
          /\ UNCHANGED <<story, pc>>
     ELSE IF TableCellsParse(data')
     THEN /\ story' = story \o <<TableElement(TableData(data'))>>
          /\ idx' = idx + 1
          /\ UNCHANGED pc
     ELSE /\ pc' = "raised"
          /\ UNCHANGED <<story, idx>>
  /\ UNCHANGED <<app, args, styles, text, blocks, result>>

\* the table branch
RenderTable ==
  /\ InLoop
  /\ Strip(blocks[idx]) # <<>>
  /\ Branch(Strip(blocks[idx])) = "Table"
  /\ block' = Strip(blocks[idx])
  /\ tag' = "Table"
  /\ data' = _parse_markdown_table(Strip(blocks[idx]))
  /\ IF data' = <<>>
     THEN /\ idx' = idx + 1
          /\ UNCHANGED <<story, pc>>
     ELSE IF TableCellsParse(data')
     THEN /\ story' = story \o <<TableElement(TableData(data')), Spacer>>
          /\ idx' = idx + 1
          /\ UNCHANGED pc
     ELSE /\ pc' = "raised"
          /\ UNCHANGED <<story, idx>>
  /\ UNCHANGED <<app, args, styles, text, blocks, result>>

\* a branch that appends one Paragraph(txt, style)
AppendParagraph(b, t, txt, style) ==
  /\ block' = b
  /\ tag' = t
  /\ IF ParagraphParses(txt)
     THEN /\ story' = Append(story, Paragraph(txt, style))
          /\ idx' = idx + 1
          /\ UNCHANGED pc
     ELSE /\ pc' = "raised"
          /\ UNCHANGED <<story, idx>>
  /\ UNCHANGED <<app, args, styles, text, blocks, data, result>>

\* the four heading branches: the characters sliced off the block and the
\* style, per branch
HeadingSlice(t) ==
  CASE t = "Heading4" -> 4
    [] t = "Heading3" -> 4
    [] t = "Heading2" -> 3
    [] t = "Heading1" -> 2

HeadingStyle(t) ==
  CASE t = "Heading4" -> "Heading4Custom"
    [] t = "Heading3" -> "Heading3Custom"
    [] t = "Heading2" -> "Heading2Custom"
    [] t = "Heading1" -> "Heading1Custom"

HeadingBranches == {"Heading4", "Heading3", "Heading2", "Heading1"}

RenderHeading ==
  /\ InLoop
  /\ Strip(blocks[idx]) # <<>>
  /\ Branch(Strip(blocks[idx])) \in HeadingBranches
  /\ LET b == Strip(blocks[idx])
         t == Branch(b)
     IN  AppendParagraph(b, t, Strip(DropFirst(b, HeadingSlice(t))), HeadingStyle(t))

RenderCallout ==
  /\ InLoop
  /\ Strip(blocks[idx]) # <<>>
  /\ Branch(Strip(blocks[idx])) = "Callout"
  /\ LET b == Strip(blocks[idx])
     IN  AppendParagraph(b, "Callout", Join(CalloutLines(b), <<"<br/>">>), "Summary")

RenderBody ==
  /\ InLoop
  /\ Strip(blocks[idx]) # <<>>
  /\ Branch(Strip(blocks[idx])) = "Body"
  /\ LET b == Strip(blocks[idx])
     IN  AppendParagraph(b, "Body", Join(BodyLines(b), <<"<br/>">>), "Body")

\* doc.build(story); return buffer.getvalue()
Build ==
  /\ pc = "loop"
  /\ idx > Len(blocks)
  /\ result' = PdfBytes(story)
  /\ pc' = "done"
  /\ UNCHANGED <<app, args, styles, text, blocks, idx, block, tag, data, story>>

Next ==
  \/ Translate
  \/ Normalize
  \/ Segment
  \/ SkipEmpty
  \/ RenderTable
  \/ RenderHeading
  \/ RenderCallout
  \/ RenderBody
  \/ Build

----------------------------------------------------------------------------
(* The chat loop of app.py: one run of the script per submitted input      *)

MaxInputs == 3

\* what the user submits
UserInputs ==
  { <<"/", "s", "a", "v", "e", "p", "d", "f">>,
    <<" ", "/", "S", "a", "v", "e", "P", "D", "F", " ", "x">>,
    <<"/", "s", "a", "v", "e", " ", "p", "d", "f">>,
    <<"h", "i">> }

\* what extract_text_from_last_message returns: a document with a heading,
\* an empty block, a table, a callout and a body paragraph; a table with a
\* bold span across two cells; a word
Answers ==
  { <<"#", " ", "a", "\n", "\n", "\n", "\n", "|", "a", "|", "b", "|", "\n", "|", "a", "|", "b", "|",
      "\n", "\n", "S", "u", "m", "m", "a", "r", "y", "\n", "\n", "x">>,
    <<"|", "*", "*", "a", "|", "b", "*", "*", "|", "\n", "|", "a", "|", "b", "|">>,
    <<"a">> }

SavePdfCommand == <<"/", "s", "a", "v", "e", "p", "d", "f">>

\* title="FMCG Market Allocation Report"
ReportTitle ==
  <<"F", "M", "C", "G", " ", "M", "a", "r", "k", "e", "t", " ", "A", "l", "l", "o", "c", "a",
    "t", "i", "o", "n", " ", "R", "e", "p", "o", "r", "t">>

\* the command matched as typed, without lower-casing
IsSavePdfAsTyped(inp) == StartsWith(Strip(inp), SavePdfCommand)

\* user_input.strip().lower().startswith("/savepdf")
IsSavePdf(inp) == StartsWith(Lower(Strip(inp)), SavePdfCommand)

Message(role, content) == [role |-> role, content |-> content]

\* the session state of a new session, and a page that has shown nothing
InitSession ==
  /\ messages = <<>>
  /\ last_answer = None
  /\ user_input = None
  /\ shown = "none"
  /\ agent_calls = 0
  /\ pdf_calls = 0
  /\ turns = 0

\* the script waits for an input
Idle == pc = "idle" /\ turns < MaxInputs

\* /savepdf with no answer yet: the warning
SavePdfWarn ==
  /\ Idle
  /\ last_answer = None
  /\ \E inp \in UserInputs :
        /\ IsSavePdf(inp)
        /\ user_input' = inp
  /\ shown' = "warning"
  /\ turns' = turns + 1
  /\ UNCHANGED <<messages, last_answer, agent_calls, pdf_calls>>
  /\ UNCHANGED <<args, styles, text, blocks, idx, block, tag, data, story, pc, result>>

\* /savepdf with an answer: the call of build_pdf_bytes
SavePdfCall ==
  /\ Idle
  /\ last_answer # None
  /\ \E inp \in UserInputs :
        /\ IsSavePdf(inp)
        /\ user_input' = inp
  /\ pdf_calls' = pdf_calls + 1
  /\ turns' = turns + 1
  /\ markdown_text' = last_answer
  /\ title' = ReportTitle
  /\ paragraph_space_before' = DefaultSpaceBefore
  /\ paragraph_space_after' = DefaultSpaceAfter
  /\ styles' = None
  /\ text' = <<>>
  /\ blocks' = <<>>
  /\ idx' = 0
  /\ block' = <<>>
  /\ tag' = "none"
  /\ data' = <<>>
  /\ story' = <<>>
  /\ pc' = "start"
  /\ result' = None
  /\ UNCHANGED <<messages, last_answer, shown, agent_calls>>

\* build_pdf_bytes has returned: the download button; or it has raised,
\* and the run ends with the error
SavePdfReturn ==
  /\ turns > 0
  /\ pc \in {"done", "raised"}
  /\ shown' = IF pc = "done" THEN "download" ELSE "error"
  /\ pc' = "idle"
  /\ UNCHANGED <<messages, last_answer, user_input, agent_calls, pdf_calls, turns>>
  /\ UNCHANGED <<args, styles, text, blocks, idx, block, tag, data, story, result>>

\* any other input: the user message, the agent, the assistant message
Ask ==
  /\ Idle
  /\ \E inp \in UserInputs, answer \in Answers :
        /\ ~IsSavePdf(inp)
        /\ user_input' = inp
        /\ messages' = messages \o <<Message("user", inp), Message("assistant", answer)>>
        /\ last_answer' = answer
  /\ agent_calls' = agent_calls + 1
  /\ shown' = "answer"
  /\ turns' = turns + 1
  /\ UNCHANGED pdf_calls
  /\ UNCHANGED <<args, styles, text, blocks, idx, block, tag, data, story, pc, result>>

\* any other input, and fmcg_supervisor_agent.invoke raises: the run ends
\* after the user message
AskRaises ==
  /\ Idle
  /\ \E inp \in UserInputs :
        /\ ~IsSavePdf(inp)
        /\ user_input' = inp
        /\ messages' = Append(messages, Message("user", inp))
  /\ agent_calls' = agent_calls + 1
  /\ shown' = "error"
  /\ turns' = turns + 1
  /\ UNCHANGED <<last_answer, pdf_calls>>
  /\ UNCHANGED <<args, styles, text, blocks, idx, block, tag, data, story, pc, result>>

NextChat ==
  \/ SavePdfWarn
  \/ SavePdfCall
  \/ SavePdfReturn
  \/ Ask
  \/ AskRaises
  \/ Next

----------------------------------------------------------------------------
(* Inputs                                                                  *)

MaxLines == 3
MaxTableLines == 3
MaxStoryLines == 4
MaxBoldLen == 7
MaxCleanLen == 3
MaxStyleLines == 2
MaxSpacing == 3

\* every sequence over S of length at most n
SeqsUpTo(S, n) == UNION {[1..k -> S] : k \in 0..n}

\* the documents of at most n lines taken from ls
Documents(ls, n) == {Join(d, <<"\n">>) : d \in SeqsUpTo(ls, n)}

\* lines an answer is made of: blank and whitespace-only lines, table rows
\* (one with a bold span across two cells), headings of one to five '#', a
\* callout keyword, bullets, bold spans and a character that _clean_text
\* replaces
Lines ==
  { <<>>,
    <<" ">>,
    <<"|","a","|","b","|">>,
    <<"|","*","*","a","|","b","*","*","|">>,
    <<"#"," ","a">>,
    <<"#","#"," ","a">>,
    <<"#","#","#"," ","a">>,
    <<"#","#","#","#"," ","a">>,
    <<"#","#","#","#","#"," ","a">>,
    <<"S","u","m","m","a","r","y">>,
    <<"-"," ","a">>,
    <<" ","*"," "," ","b"," ">>,
    <<"-"," ">>,
    <<"a","ndash","*","*","b","*","*"," ">> }

\* lines of table blocks: rows, rows with an empty first cell, rows of empty
\* cells, separator rows of one and of two columns; and one line for each
\* other kind of block
TableLines ==
  { <<>>,
    <<"|","a","|","b","|">>,
    <<"|","|","b","|">>,
    <<"|"," ","|"," ","|">>,
    <<"|","-","|",":","|">>,
    <<"|","-","|">>,
    <<"#"," ","|">>,
    <<"S","u","m","m","a","r","y">> }

\* lines of the documents whose Story is followed block by block
StoryLines ==
  { <<>>,
    <<"|","a","|","b","|">>,
    <<"|","-","|",":","|">>,
    <<"|","*","*","a","|","b","*","*","|">>,
    <<"#","#"," ","a">>,
    <<"r","i","n","g","k","a","s","a","n">>,
    <<"|","-","|">> }

Titles == {None, <<>>, <<"T", "mdash", "a">>}

\* the characters the bold translator tells apart
BoldAlphabet == {"a", "*", "\n"}

\* the characters _clean_text replaces, its two targets, and another one
CleanAlphabet ==
  {"ndash", "mdash", "bullet", "middot", "nbsp", "nbhyphen", "-", " ", "a"}

\* the examples of the specification, and one block of every kind
Samples ==
  { <<"a"," ","*","*","b","*","*"," ","c"," ","*","*","d","*","*">>,
    <<"|"," ","A"," ","|"," ","B"," ","|","\n",
      "|","-","-","-","|","-","-","-","|","\n",
      "|"," ","x"," ","|"," ","y"," ","|">>,
    <<"|","-","-","-","|","-","-","-","|">>,
    <<"#","#","#","#"," ","T","i","t","l","e">>,
    <<"R","e","c","o","m","m","e","n","d","a","t","i","o","n","\n","\n",
      "-"," ","i","t","e","m","1","\n","*"," ","i","t","e","m","2">> }

InitWith(inputs, titles) ==
  /\ markdown_text \in inputs
  /\ title \in titles
  /\ paragraph_space_before = DefaultSpaceBefore
  /\ paragraph_space_after = DefaultSpaceAfter
  /\ styles = None
  /\ text = <<>>
  /\ blocks = <<>>
  /\ idx = 0
  /\ block = <<>>
  /\ tag = "none"
  /\ data = <<>>
  /\ story = <<>>
  /\ pc = "start"
  /\ result = None
  /\ InitSession

\* documents of at most MaxLines lines
Init == InitWith(Documents(Lines, MaxLines), {None})

\* table documents of at most MaxTableLines lines
InitTable == InitWith(Documents(TableLines, MaxTableLines), {None})

\* documents of at most MaxStoryLines lines, with and without a title
InitStory == InitWith(Documents(StoryLines, MaxStoryLines), Titles)

\* every short text over the two alphabets, and the examples
InitChars ==
  InitWith(SeqsUpTo(BoldAlphabet, MaxBoldLen) \cup SeqsUpTo(CleanAlphabet, MaxCleanLen)
             \cup Samples, {None})

\* documents of at most MaxStyleLines lines, rendered with every spacing of
\* at most MaxSpacing quarter lines before and after
InitStyles ==
  /\ markdown_text \in Documents(StoryLines, MaxStyleLines)
  /\ title = None
  /\ paragraph_space_before \in 0..MaxSpacing
  /\ paragraph_space_after \in 0..MaxSpacing
  /\ styles = None
  /\ text = <<>>
  /\ blocks = <<>>
  /\ idx = 0
  /\ block = <<>>
  /\ tag = "none"
  /\ data = <<>>
  /\ story = <<>>
  /\ pc = "start"
  /\ result = None
  /\ InitSession

\* a new session: nothing rendered yet
InitChat ==
  /\ InitSession
  /\ markdown_text = <<>>
  /\ title = None
  /\ paragraph_space_before = DefaultSpaceBefore
  /\ paragraph_space_after = DefaultSpaceAfter
  /\ styles = None
  /\ text = <<>>
  /\ blocks = <<>>
  /\ idx = 0
  /\ block = <<>>
  /\ tag = "none"
  /\ data = <<>>
  /\ story = <<>>
  /\ pc = "idle"
  /\ result = None

Spec == Init /\ [][Next]_vars

SpecChat == InitChat /\ [][NextChat]_vars

SpecStyles == InitStyles /\ [][Next]_vars

SpecTable == InitTable /\ [][Next]_vars

SpecStory == InitStory /\ [][Next]_vars

SpecChars == InitChars /\ [][Next]_vars

----------------------------------------------------------------------------
(* Claims                                                                  *)

PdfMagic == <<"%", "P", "D", "F">>

\* C1: build_pdf_bytes is total: for every input the call completes without
\* raising, and what it returns is non-empty and starts with the PDF magic
\* header.
C1_RenderNeverRaises ==
  /\ pc # "raised"
  /\ pc = "done" => result # None /\ StartsWith(result, PdfMagic)

\* the rules of the classifier, each on its own
TableRule(b) == _is_markdown_table(b)

Hashes(k) == [i \in 1..k |-> "#"]

HeadingRule(b) == \E k \in 1..4 : StartsWith(b, Hashes(k) \o <<" ">>)

CalloutRule(b) == \E kw \in CalloutKeywords : StartsWith(Lower(b), kw)

FirstMatch(b) ==
  IF TableRule(b) THEN "Table"
  ELSE IF HeadingRule(b) THEN "Heading"
  ELSE IF CalloutRule(b) THEN "Callout"
  ELSE "BodyText"

TagKind(t) ==
  IF t \in HeadingBranches THEN "Heading"
  ELSE IF t = "Body" THEN "BodyText"
  ELSE t

\* a block has been taken into a branch of the loop body
Classified == tag \notin {"none", "Empty"}

\* C2: every non-empty trimmed block takes exactly one of the branches
\* Table, Heading, Callout, BodyText, and it is the first of them, in that
\* order, whose rule the block matches; the branch depends on the block
\* alone.
C2_FirstMatchWins ==
  /\ tag = "Empty" => block = <<>>
  /\ Classified =>
       /\ block # <<>>
       /\ block = Strip(block)
       /\ tag \in {"Table", "Callout", "Body"} \cup HeadingBranches
       /\ TagKind(tag) = FirstMatch(block)

\* a block that matches the table rule and the heading rule went to the
\* table branch
C2_Witness ==
  /\ tag = "Table"
  /\ TableRule(block)
  /\ HeadingRule(block)

\* the number of '#' characters a text starts with
LeadingHashes(b) ==
  LET other == {i \in 1..Len(b) : b[i] # "#"}
  IN  IF other = {} THEN Len(b) ELSE MinOf(other) - 1

LevelStyle(k) ==
  CASE k = 1 -> "Heading1Custom"
    [] k = 2 -> "Heading2Custom"
    [] k = 3 -> "Heading3Custom"
    [] k = 4 -> "Heading4Custom"

HeadingStyles == {LevelStyle(k) : k \in 1..4}

\* the element the last classified block appended
LastElement == story[Len(story)]

\* C3: a non-table block that starts with k '#' and a space, k from 1 to 4,
\* is rendered as one paragraph in the heading style of level k; a block
\* that starts with five or more '#' is not rendered as a heading.
C3_HeadingLevel ==
  (Classified /\ ~_is_markdown_table(block) /\ pc # "raised") =>
     LET k == LeadingHashes(block)
     IN  /\ (k \in 1..4 /\ Len(block) > k /\ block[k + 1] = " ") =>
               /\ story # <<>>
               /\ LastElement.kind = "Paragraph"
               /\ LastElement.style = LevelStyle(k)
         /\ k >= 5 =>
               /\ story # <<>>
               /\ LastElement.style \notin HeadingStyles

\* a block of four '#' and a space has been rendered in the level-4 style
C3_Witness ==
  /\ Classified
  /\ LeadingHashes(block) = 4
  /\ story # <<>>
  /\ LastElement.style = "Heading4Custom"

\* a pipe line closed by a pipe, and its cells: what lies between the first
\* and the last pipe, split on '|', each cell trimmed
IsClosedPipeLine(line) ==
  Len(line) >= 2 /\ line[1] = "|" /\ line[Len(line)] = "|"

RowCells(line) == StripEach(Split(SubSeq(line, 2, Len(line) - 1), <<"|">>))

\* a separator row: made of '-' and ':' only, and of at least one of them
IsAlignmentRow(cells) ==
  /\ \A c \in 1..Len(cells) : OnlySepChars(cells[c])
  /\ \E c \in 1..Len(cells) : cells[c] # <<>>

\* a well-formed pipe table: two or more closed pipe lines, the first one a
\* header, every line with as many cells as the header
WellFormedTable(b) ==
  LET ls == SplitLines(b)
  IN  /\ Len(ls) >= 2
      /\ \A i \in 1..Len(ls) : IsClosedPipeLine(ls[i])
      /\ ~IsAlignmentRow(RowCells(ls[1]))
      /\ \A i \in 1..Len(ls) : Len(RowCells(ls[i])) = Len(RowCells(ls[1]))

RECURSIVE GridRows(_)
GridRows(ls) ==
  IF ls = <<>> THEN <<>>
  ELSE IF IsAlignmentRow(RowCells(Head(ls))) THEN GridRows(Tail(ls))
  ELSE <<RowCells(Head(ls))>> \o GridRows(Tail(ls))

\* C4: for a well-formed pipe table block, _parse_markdown_table returns
\* exactly the non-separator pipe lines, in their order, each as the list of
\* its trimmed cells.
C4_ParsesWellFormedTable ==
  (tag = "Table" /\ WellFormedTable(block)) => data = GridRows(SplitLines(block))

\* a line made of pipes and whitespace only: every cell of it is empty
IsBlankPipeLine(line) ==
  /\ line # <<>>
  /\ line[1] = "|"
  /\ \A i \in 1..Len(line) : line[i] = "|" \/ IsSpace(line[i])

\* a line made of pipes, whitespace, '-' and ':' only, with a '-' or a ':'
IsAlignmentLine(line) ==
  /\ line # <<>>
  /\ line[1] = "|"
  /\ \A i \in 1..Len(line) : line[i] = "|" \/ IsSpace(line[i]) \/ line[i] \in SepChars
  /\ \E i \in 1..Len(line) : line[i] \in SepChars

AllCellsEmpty(row) == \A c \in 1..Len(row) : row[c] = <<>>

\* the trimmed pipe lines of a block that are not alignment lines
RECURSIVE KeptPipeLines(_)
KeptPipeLines(ls) ==
  IF ls = <<>> THEN <<>>
  ELSE LET line == Strip(Head(ls))
       IN  IF line # <<>> /\ line[1] = "|" /\ ~IsAlignmentLine(line)
           THEN <<line>> \o KeptPipeLines(Tail(ls))
           ELSE KeptPipeLines(Tail(ls))

\* C9 as stated: a pipe line whose cells are all empty counts as a separator
\* row and never appears as a row of the returned grid.
C9_BlankRowDiscarded ==
  tag = "Table" => \A r \in 1..Len(data) : ~AllCellsEmpty(data[r])

\* C9 as amended: a pipe line whose cells are all empty is not a separator
\* row; the grid has one row for every pipe line that is not made of '-' and
\* ':' alone, and the row of a line of pipes and whitespace is a row of
\* empty cells.
C9_BlankRowKept ==
  tag = "Table" =>
    LET kept == KeptPipeLines(SplitLines(block))
    IN  /\ Len(data) = Len(kept)
        /\ \A r \in 1..Len(kept) : IsBlankPipeLine(kept[r]) <=> AllCellsEmpty(data[r])

\* a table block with a line of pipes and whitespace has been parsed
C9_Witness ==
  /\ tag = "Table"
  /\ \E r \in 1..Len(data) : AllCellsEmpty(data[r])
  /\ \E i \in 1..Len(SplitLines(block)) : IsBlankPipeLine(Strip(SplitLines(block)[i]))

\* the text with every produced bold tag written back as "**"
RECURSIVE Untag(_)
Untag(t) ==
  IF t = <<>> THEN <<>>
  ELSE IF Head(t) \in {"<b>", "</b>"} THEN <<"*", "*">> \o Untag(Tail(t))
  ELSE <<Head(t)>> \o Untag(Tail(t))

\* the bold spans of a translated text, each as <<p, n>>: the position in
\* the source text of its opening "**" and the length of what it wraps
RECURSIVE BoldSpans(_, _)
BoldSpans(t, p) ==
  IF t = <<>> THEN {}
  ELSE IF Head(t) = "<b>"
       THEN LET closes == {e \in 2..Len(t) : t[e] = "</b>"}
                e      == IF closes = {} THEN Len(t) + 1 ELSE MinOf(closes)
            IN  {<<p, e - 2>>} \cup BoldSpans(SubSeq(t, e + 1, Len(t)), p + e + 2)
       ELSE BoldSpans(Tail(t), p + 1)

\* the pattern "**", one or more characters of one line, "**" matches the
\* source text at position p
BoldMatchesAt(src, p) ==
  /\ p + 1 <= Len(src)
  /\ src[p] = "*" /\ src[p + 1] = "*"
  /\ \E q \in (p + 3)..(Len(src) - 1) :
        /\ src[q] = "*" /\ src[q + 1] = "*"
        /\ \A k \in (p + 2)..(q - 1) : src[k] # "\n"

\* the tags of a translated text alternate: <b>, </b>, <b>, </b>, ...
TagsAlternate(t) ==
  LET tags == SelectSeq(t, LAMBDA c : c \in {"<b>", "</b>"})
  IN  /\ Len(tags) % 2 = 0
      /\ \A i \in 1..Len(tags) : tags[i] = IF i % 2 = 1 THEN "<b>" ELSE "</b>"

BoldExample == <<"a"," ","*","*","b","*","*"," ","c"," ","*","*","d","*","*">>

BoldExampleOut == <<"a"," ","<b>","b","</b>"," ","c"," ","<b>","d","</b>">>

\* C5: the translation replaces every non-overlapping "**...**" span of one
\* line, leftmost first and each as short as possible, by its own <b>...</b>
\* span, and leaves every other character, an unmatched "**" included, as
\* it is.
C5_BoldSpans ==
  pc = "translated" =>
    LET spans   == BoldSpans(text, 1)
        covered == {i \in 1..Len(markdown_text) :
                      \E sp \in spans : sp[1] <= i /\ i <= sp[1] + sp[2] + 3}
    IN  /\ Untag(text) = markdown_text
        /\ TagsAlternate(text)
        /\ \A sp \in spans :
              /\ sp[2] >= 1
              /\ \A k \in (sp[1] + 2)..(sp[1] + sp[2] + 1) : markdown_text[k] # "\n"
              /\ \A q \in (sp[1] + 3)..(sp[1] + sp[2] + 1) :
                    ~(markdown_text[q] = "*" /\ markdown_text[q + 1] = "*")
        /\ \A i \in 1..Len(markdown_text) :
              i \notin covered => ~BoldMatchesAt(markdown_text, i)
        /\ markdown_text = BoldExample => text = BoldExampleOut

\* a text with a bold span and, after it, a "**" that closes nothing has
\* been translated
C5_Witness ==
  /\ pc = "translated"
  /\ Cardinality(BoldSpans(text, 1)) = 1
  /\ Len(text) >= 2
  /\ text[Len(text)] = "*" /\ text[Len(text) - 1] = "*"

\* C8: normalizing a normalized text changes nothing, and no replacement
\* target is a replaced character.
C8_CleanIdempotent ==
  /\ \A i, j \in 1..Len(replacements) : replacements[i][2] # replacements[j][1]
  /\ pc = "cleaned" => _clean_text(text) = text

\* a text with a replaced character has been normalized
C8_Witness ==
  /\ pc = "cleaned"
  /\ \E i \in 1..Len(markdown_text) :
        \E r \in 1..Len(replacements) : markdown_text[i] = replacements[r][1]
  /\ text # markdown_text

BulletMarkers == {"-", "*"}

\* the line starts with a marker and a space
StartsWithMarker(line) ==
  Len(line) >= 2 /\ line[1] \in BulletMarkers /\ line[2] = " "

\* the line as C6 states it: marker and space replaced by the glyph prefix
\* on a line that starts with them, trailing whitespace stripped otherwise
LineAsStated(line) ==
  IF StartsWithMarker(line)
  THEN <<"bullet", " ">> \o Strip(SubSeq(line, 3, Len(line)))
  ELSE RStrip(line)

\* position of the marker of a bullet line, 0 on any other line: whitespace
\* only before the marker, a space right after it, and text after that
MarkerAt(line) ==
  LET at == {i \in 1..(Len(line) - 2) :
               /\ \A j \in 1..(i - 1) : IsSpace(line[j])
               /\ line[i] \in BulletMarkers
               /\ line[i + 1] = " "
               /\ \E j \in (i + 2)..Len(line) : ~IsSpace(line[j])}
  IN  IF at = {} THEN 0 ELSE MinOf(at)

\* the line as the code emits it
LineAsEmitted(line) ==
  LET i == MarkerAt(line)
  IN  IF i # 0
      THEN LET rest == {j \in (i + 2)..Len(line) : ~IsSpace(line[j])}
           IN  <<"bullet", " ">> \o SubSeq(line, MinOf(rest), MaxOf(rest))
      ELSE IF \A j \in 1..Len(line) : IsSpace(line[j]) THEN <<>>
      ELSE SubSeq(line, 1, MaxOf({j \in 1..Len(line) : ~IsSpace(line[j])}))

\* the paragraph of a body block whose lines are emitted by f
BodyParagraph(f(_), b) ==
  LET ls == SplitLines(b)
  IN  Paragraph(Join([i \in 1..Len(ls) |-> f(ls[i])], <<"<br/>">>), "Body")

BodyRendered == tag = "Body" /\ pc # "raised" /\ story # <<>>

IsSeparatorBlock(b) ==
  LET ls == SplitLines(b)
  IN  /\ ls # <<>>
      /\ \A i \in 1..Len(ls) : IsAlignmentLine(Strip(ls[i]))

\* the guard of C7 holds of a trimmed block
IsEmptyTable(b) ==
  /\ b # <<>>
  /\ \/ IsSeparatorBlock(b)
     \/ _is_markdown_table(b) /\ _parse_markdown_table(b) = <<>>

\* the step appends no table element and no spacer
AppendsNoTable ==
  \/ story' = story
  \/ \E e \in {story'[Len(story')]} : story' = Append(story, e) /\ e.kind = "Paragraph"

\* C7: for a block of separator pipe lines only, and for a block classified
\* as a table that parses to zero rows, the Assembler appends no table
\* element and no spacer, raises no error, and goes on to the next block.
C7_EmptyTableGuard ==
  [][(pc = "loop" /\ idx <= Len(blocks) /\ IsEmptyTable(Strip(blocks[idx]))) =>
       /\ AppendsNoTable
       /\ pc' = "loop"
       /\ idx' = idx + 1]_vars

\* a block of separator lines has been classified as a table, has parsed to
\* zero rows and has been skipped, and another block follows it
C7_Witness ==
  /\ pc = "loop"
  /\ tag = "Table"
  /\ data = <<>>
  /\ IsSeparatorBlock(block)
  /\ idx <= Len(blocks)
  /\ Strip(blocks[idx]) # <<>>

KindsOf(st) == [i \in 1..Len(st) |-> st[i].kind]

\* the elements of one trimmed block: a table and its spacer, nothing for a
\* table without rows or for an empty block, one paragraph otherwise
BlockKinds(b) ==
  IF b = <<>> THEN <<>>
  ELSE IF _is_markdown_table(b)
       THEN IF _parse_markdown_table(b) = <<>> THEN <<>> ELSE <<"Table", "Spacer">>
  ELSE <<"Paragraph">>

RECURSIVE BlocksKinds(_, _)
BlocksKinds(bs, n) ==
  IF n = 0 THEN <<>> ELSE BlocksKinds(bs, n - 1) \o BlockKinds(Strip(bs[n]))

TitleSupplied == title # None /\ title # <<>>

TitleKinds == IF TitleSupplied THEN <<"Paragraph">> ELSE <<>>

\* the Story once the first idx - 1 blocks are rendered
StoryShape ==
  pc \in {"loop", "raised", "done"} =>
    /\ KindsOf(story) = TitleKinds \o BlocksKinds(blocks, idx - 1)
    /\ TitleSupplied => story[1] = Paragraph(_clean_text(title), "Heading1Custom")
    /\ \A i \in 1..Len(story) :
          story[i].kind = "Spacer" <=> (i > 1 /\ story[i - 1].kind = "Table")
    /\ pc = "done" => idx = Len(blocks) + 1

IsPrefix(s, t) == Len(s) <= Len(t) /\ SubSeq(t, 1, Len(s)) = s

\* C10: the Story is the title element first if a title was supplied, then,
\* for each non-empty block in input order, its one element (none for a
\* table without rows), with a spacer right after each table and nowhere
\* else; every step leaves the Story as it is or appends to it.
C10_StoryStructure == [](StoryShape) /\ [][IsPrefix(story, story')]_vars

\* a titled document whose table is followed by another block is rendered
C10_Witness ==
  /\ pc = "done"
  /\ TitleSupplied
  /\ Len(story) >= 4
  /\ story[2].kind = "Table"
  /\ story[3].kind = "Spacer"
  /\ story[4].kind = "Paragraph"

\* C11: a block is classified as a table only if it has a data row:
\* whenever _is_markdown_table holds of a block handed to the classifier,
\* _parse_markdown_table returns at least one row for it.
C11_TableHasDataRow ==
  Classified =>
    /\ _is_markdown_table(block) => _parse_markdown_table(block) # <<>>
    /\ tag = "Table" => data # <<>>

\* the remainder of the first line of a heading block, without the '#'
\* prefix and the surrounding whitespace
FirstLineText(b) ==
  LET first == SplitLines(b)[1]
  IN  Strip(DropFirst(first, LeadingHashes(first)))

\* C12: for a heading block of any number of lines, the text of the heading
\* element is the remainder of the first line of the block, '#' prefix and
\* surrounding whitespace stripped; no later line of the block is in it.
C12_HeadingFirstLine ==
  (Classified /\ tag \in HeadingBranches /\ pc # "raised") =>
     /\ LastElement.kind = "Paragraph"
     /\ LastElement.text = FirstLineText(block)
     /\ \A i \in 1..Len(LastElement.text) : LastElement.text[i] # "\n"

\* a line that is empty or made of whitespace only
IsBlankLine(line) == Strip(line) = <<>>

\* some line of the block is blank
HasBlankLine(b) ==
  \E i \in 1..Len(SplitLines(b)) : IsBlankLine(SplitLines(b)[i])

\* the text between two blocks is exactly two newlines, and no block holds
\* two newlines in a row
SplitOnDoubleNewline ==
  /\ Join(blocks, <<"\n", "\n">>) = text
  /\ \A i \in 1..Len(blocks) : Len(Split(blocks[i], <<"\n", "\n">>)) = 1

\* the place in blocks of the block last handed to the classifier: idx has
\* moved past it unless its rendering raised
HandedIndex == IF pc = "raised" THEN idx ELSE idx - 1

\* the block handed to the classifier is the next piece of the text,
\* trimmed, and is not empty
HandedInOrder ==
  Classified =>
    /\ HandedIndex \in 1..Len(blocks)
    /\ block = Strip(blocks[HandedIndex])
    /\ block # <<>>

\* C13 as stated: Segmentation yields, in input order, only contiguous runs
\* of non-blank lines: no block handed to the classifier is empty after
\* trimming, and none contains a line that is empty or whitespace-only.
C13_NoBlankLineInBlock ==
  /\ HandedInOrder
  /\ Classified => ~HasBlankLine(block)

\* C13 as the code has it: the text is cut at every two newlines in a row
\* and nowhere else; the pieces are handed to the classifier in input
\* order, trimmed, the empty ones skipped; no block contains an empty line,
\* and its first and last lines are not blank. A whitespace-only line
\* inside a block is not a boundary and stays in the block.
C13_NoEmptyLineInBlock ==
  /\ pc \in {"loop", "done"} => SplitOnDoubleNewline
  /\ HandedInOrder
  /\ Classified =>
        LET ls == SplitLines(block)
        IN  /\ \A i \in 1..Len(ls) : ls[i] # <<>>
            /\ ~IsBlankLine(ls[1])
            /\ ~IsBlankLine(ls[Len(ls)])

\* a block with a whitespace-only line between two other lines has been
\* handed to the classifier as one block
C13_Witness ==
  /\ Classified
  /\ pc = "loop"
  /\ Len(SplitLines(block)) = 3
  /\ IsBlankLine(SplitLines(block)[2])
  /\ blocks = <<text>>

\* the points a style adds to the space of the body style
ExtraSpace(name) ==
  [before |-> styles[name].spaceBefore - styles["Body"].spaceBefore,
   after  |-> styles[name].spaceAfter - styles["Body"].spaceAfter]

\* the spaces of the body style are the base font size times the caller's
\* numbers of lines
BodySpaces ==
  /\ QuartersPerLine * styles["Body"].spaceBefore = body_font_size * paragraph_space_before
  /\ QuartersPerLine * styles["Body"].spaceAfter = body_font_size * paragraph_space_after

Emphasized == HeadingStyles \cup {"Summary"}

\* the styles exist from the segmentation on
StylesBuilt == pc \in {"loop", "raised", "done"}

\* C14 as stated: each style's space before and after is 12 times the
\* caller's space plus a fixed offset of the style, and that offset is
\* strictly larger for every heading level and for the callout style than
\* for the body style, whose offset is 0.
C14_OffsetsAboveBody ==
  StylesBuilt =>
    /\ BodySpaces
    /\ \A name \in Emphasized :
          /\ ExtraSpace(name).before > 0
          /\ ExtraSpace(name).after > 0

\* C14 as the code has it: the offsets are half a line before and after
\* for heading level 1, a quarter line before and half a line after for
\* level 2, a quarter line before and three quarters after for the callout
\* style, and nothing for levels 3 and 4, whose spaces are those of the
\* body style. 12 times a quarter line is 3 points.
C14_OffsetsPerStyle ==
  StylesBuilt =>
    /\ DOMAIN styles = Emphasized \cup {"Body"}
    /\ BodySpaces
    /\ ExtraSpace("Heading1Custom") = [before |-> 6, after |-> 6]
    /\ ExtraSpace("Heading2Custom") = [before |-> 3, after |-> 6]
    /\ ExtraSpace("Heading3Custom") = [before |-> 0, after |-> 0]
    /\ ExtraSpace("Heading4Custom") = [before |-> 0, after |-> 0]
    /\ ExtraSpace("Summary") = [before |-> 3, after |-> 9]

\* a document with a heading is rendered with half a line before each
\* paragraph and a quarter line after it
C14_Witness ==
  /\ pc = "done"
  /\ paragraph_space_before = 2
  /\ paragraph_space_after = 1
  /\ styles["Body"].spaceBefore = 6
  /\ styles["Heading2Custom"].spaceBefore = 9
  /\ \E i \in 1..Len(story) : story[i].style = "Heading2Custom"

\* the input, trimmed, starts with "/savepdf" in any mix of cases: after the
\* leading whitespace come the eight characters of the command, each in
\* either case
StartsSavePdf(inp) ==
  LET solid == {i \in 1..Len(inp) : ~IsSpace(inp[i])}
  IN  /\ solid # {}
      /\ LET first == MinOf(solid)
         IN  /\ Len(inp) >= first + 7
             /\ \A k \in 1..8 :
                   \E j \in 1..Len(LowerCase) :
                      /\ LowerCase[j] = SavePdfCommand[k] \/ SavePdfCommand[k] = "/"
                      /\ inp[first + k - 1] \in
                            IF SavePdfCommand[k] = "/" THEN {"/"}
                            ELSE {LowerCase[j], UpperCase[j]}

\* the content of the last assistant message of a history; None without one
LastAssistantContent(history) ==
  LET answers == {i \in 1..Len(history) : history[i].role = "assistant"}
  IN  IF answers = {} THEN None ELSE history[MaxOf(answers)].content

\* what holds of the page at every moment
ChatState ==
  /\ last_answer = LastAssistantContent(messages)
  /\ shown = "warning" => last_answer = None /\ StartsSavePdf(user_input)
  /\ shown = "download" => last_answer # None /\ StartsSavePdf(user_input)
  /\ pdf_calls > 0 => last_answer # None
  /\ pc # "idle" => StartsSavePdf(user_input)

\* what one step does: a step that takes a /savepdf input, a step that
\* takes another input, and a step inside build_pdf_bytes
ChatStep ==
  IF turns' # turns
  THEN IF StartsSavePdf(user_input')
       THEN /\ agent_calls' = agent_calls
            /\ messages' = messages
            /\ last_answer' = last_answer
            /\ IF last_answer = None
               THEN pdf_calls' = pdf_calls /\ shown' = "warning" /\ pc' = "idle"
               ELSE pdf_calls' = pdf_calls + 1 /\ markdown_text' = last_answer
       ELSE /\ agent_calls' = agent_calls + 1
            /\ pdf_calls' = pdf_calls
            /\ Len(messages') > Len(messages)
            /\ SubSeq(messages', 1, Len(messages) + 1) =
                  Append(messages, Message("user", user_input'))
            /\ last_answer' = LastAssistantContent(messages')
            /\ shown' = "answer" =>
                  /\ Len(messages') = Len(messages) + 2
                  /\ messages'[Len(messages')] = Message("assistant", last_answer')
  ELSE UNCHANGED <<messages, last_answer, user_input, agent_calls, pdf_calls>>

\* C15: over any sequence of inputs, an input that starts with "/savepdf"
\* (any case, after trimming) never invokes the agent and leaves the message
\* history and last_answer unchanged; it builds a PDF only when last_answer
\* is not None, and otherwise shows only the warning; after every other
\* input last_answer is the content of the last assistant message appended
\* to the history.
C15_SavePdfFrame == [](ChatState) /\ [][ChatStep]_vars

\* after an answer, a /savepdf typed in capitals with spaces around it has
\* built the PDF of that answer; the agent ran once, the history holds the
\* question and the answer
C15_Witness ==
  /\ shown = "download"
  /\ user_input # SavePdfCommand
  /\ pdf_calls = 1
  /\ agent_calls = 1
  /\ Len(messages) = 2
  /\ last_answer = messages[2].content
  /\ markdown_text = last_answer

====
